---- MODULE Spec2Model ----
(***************************************************************************)
(* Debt Eligibility Checker (src/app.py): the row classifier               *)
(* compute_debt_eligibility, the column heuristic guess_balance_columns    *)
(* and the Streamlit form around them.                                     *)
(*                                                                         *)
(* A table (pandas DataFrame) is a sequence of columns, each a record      *)
(* [name, vals]; rows are the positions of vals.  A column name is a       *)
(* sequence of one-character strings, so that str.lower() and the          *)
(* substring test of the heuristic are computed, not assumed.  A cell is   *)
(* a record [k, v, s]: a number (k = "num", value v), a text (k = "str",   *)
(* text s) or a missing value (k = "null").                                *)
(***************************************************************************)
EXTENDS Integers, Sequences, FiniteSets, TLC

VARIABLES
    uploaded,            \* a file is in the uploader (line 65)
    df,                  \* the table read from it (lines 68, 70); <<>> without a file
    col_member,          \* the five selectbox values (lines 85, 86, 100-102)
    col_route,
    col_m1,
    col_m2,
    col_m3,
    balance_candidates,  \* line 89
    out,                 \* line 109
    results,             \* line 116
    summary,             \* lines 122-123
    shown,               \* what the last script run rendered
    pc                   \* which operation produced the state

vars == <<uploaded, df, col_member, col_route, col_m1, col_m2, col_m3,
          balance_candidates, out, results, summary, shown, pc>>

---------------------------------------------------------------------------
(* Bounds of the model. *)

\* numbers in cells range over 0..MaxVal
MaxVal == 2
\* rows of a table whose cells are enumerated freely
MaxRows == 1
\* columns and rows of the tables given to guess_balance_columns
MaxGuessCols == 2
MaxGuessRows == 10
\* columns of an uploaded table in the form
MaxUICols == 3

---------------------------------------------------------------------------
(* Column names. *)

Member_No == <<"M","e","m","b","e","r","_","N","o">>
Route == <<"R","o","u","t","e">>
Nov_Balance == <<"N","o","v","_","B","a","l","a","n","c","e">>
Paid == <<"P","a","i","d">>
Nov == <<"N","o","v">>
Dec == <<"D","e","c">>
Jan == <<"J","a","n">>
Feb == <<"F","e","b">>
m1_name == <<"m","1">>
m2_name == <<"m","2">>
m3_name == <<"m","3">>
DebtEligibility == <<"D","e","b","t","E","l","i","g","i","b","i","l","i","t","y">>
Reason == <<"R","e","a","s","o","n">>

\* None: no column selected, no table
NoCol == <<>>
NoTable == <<>>

Range(s) == {s[i] : i \in DOMAIN s}

Names(t) == [i \in DOMAIN t |-> t[i].name]

HasColumn(t, c) == \E i \in DOMAIN t : t[i].name = c

ColumnIndex(t, c) == CHOOSE i \in DOMAIN t : t[i].name = c

\* df[c] for a column that exists
Column(t, c) == t[ColumnIndex(t, c)].vals

NRows(t) == IF t = <<>> THEN 0 ELSE Len(t[1].vals)

---------------------------------------------------------------------------
(* Cells and numeric coercion. *)

Num(n) == [k |-> "num", v |-> n, s |-> ""]
Str(t) == [k |-> "str", v |-> 0, s |-> t]
Null == [k |-> "null", v |-> 0, s |-> ""]

NaN == [nan |-> TRUE, v |-> 0]
Number(n) == [nan |-> FALSE, v |-> n]

\* Parsing a text as a number: the decimal numerals parse to their value,
\* every other text fails.
ParseText(t) ==
    IF \E n \in 0..MaxVal : ToString(n) = t
    THEN Number(CHOOSE n \in 0..MaxVal : ToString(n) = t)
    ELSE NaN

\* pd.to_numeric(s, errors="coerce") on one value
pd_to_numeric(c) ==
    CASE c.k = "num" -> Number(c.v)
      [] c.k = "str" -> ParseText(c.s)
      [] OTHER -> NaN

\* a fill value of 1 instead of 0
fillna_one(x) == IF x.nan THEN 1 ELSE x.v

\* .fillna(0) on one value
fillna(x) == IF x.nan THEN 0 ELSE x.v

\* to_num (lines 15-16)
to_num(s) == [i \in DOMAIN s |-> fillna(pd_to_numeric(s[i]))]

---------------------------------------------------------------------------
(* compute_debt_eligibility (lines 11-43). *)

RECURSIVE FirstTrue(_, _, _)
\* index of the first condition of condlist that is true at row i, 0 if none
FirstTrue(condlist, i, j) ==
    IF j > Len(condlist) THEN 0
    ELSE IF condlist[j][i] THEN j
    ELSE FirstTrue(condlist, i, j + 1)

RECURSIVE LastTrue(_, _, _)
\* index of the last condition of condlist that is true at row i, 0 if none
LastTrue(condlist, i, j) ==
    IF j < 1 THEN 0
    ELSE IF condlist[j][i] THEN j
    ELSE LastTrue(condlist, i, j - 1)

\* a select in which the last matching condition wins
np_select_last(condlist, choicelist, default) ==
    [i \in DOMAIN condlist[1] |->
        LET j == LastTrue(condlist, i, Len(condlist))
        IN  IF j = 0 THEN Str(default) ELSE Str(choicelist[j])]

\* np.select(condlist, choicelist, default)
np_select(condlist, choicelist, default) ==
    [i \in DOMAIN condlist[1] |->
        LET j == FirstTrue(condlist, i, 1)
        IN  IF j = 0 THEN Str(default) ELSE Str(choicelist[j])]

zero_all(m1, m2, m3) == [i \in DOMAIN m1 |-> (m1[i] = 0) /\ (m2[i] = 0) /\ (m3[i] = 0)]

strictly_increasing(m1, m2, m3) == [i \in DOMAIN m1 |-> (m1[i] < m2[i]) /\ (m2[i] < m3[i])]

\* a decreasing test whose second comparison is not strict
strictly_decreasing_weak(m1, m2, m3) == [i \in DOMAIN m1 |-> (m1[i] > m2[i]) /\ (m2[i] >= m3[i])]

strictly_decreasing(m1, m2, m3) == [i \in DOMAIN m1 |-> (m1[i] > m2[i]) /\ (m2[i] > m3[i])]

constant(m1, m2, m3) == [i \in DOMAIN m1 |-> (m1[i] = m2[i]) /\ (m2[i] = m3[i])]

\* df[name] = vals: an existing column of that name is overwritten in place,
\* a new one is appended
df_setitem(t, name, vals) ==
    IF HasColumn(t, name)
    THEN [i \in DOMAIN t |-> IF t[i].name = name THEN [name |-> name, vals |-> vals] ELSE t[i]]
    ELSE Append(t, [name |-> name, vals |-> vals])

eligibility_choices == <<"Eligible", "Ineligible", "Eligible", "Dormant">>

reason_choices ==
    <<"Zero balance across selected months",
      "Strictly increasing debt across selected months",
      "Strictly decreasing debt across selected months",
      "Constant balance across selected months (Dormant)">>

\* lines 28-43: the two np.select columns are set and the table returned
set_result_columns(t, condlist) ==
    df_setitem(df_setitem(t, DebtEligibility,
                          np_select(condlist, eligibility_choices, "Ineligible")),
               Reason,
               np_select(condlist, reason_choices, "Mixed behaviour"))

\* lines 22-43 on the three coerced series
classify_series(t, m1, m2, m3) ==
    set_result_columns(t, <<zero_all(m1, m2, m3), strictly_increasing(m1, m2, m3),
                            strictly_decreasing(m1, m2, m3), constant(m1, m2, m3)>>)

\* the series of a column, zeros for a column that is not in the table
series_or_zeros(t, c) ==
    IF HasColumn(t, c) THEN to_num(Column(t, c)) ELSE [i \in 1..NRows(t) |-> 0]

\* a call that reads a missing column as zeros instead of raising
compute_without_raise(t, c1, c2, c3) ==
    [raised |-> FALSE,
     df |-> classify_series(t, series_or_zeros(t, c1), series_or_zeros(t, c2),
                            series_or_zeros(t, c3))]

\* The call's outcome: [raised, df].  df[col] raises KeyError for a column
\* that is not in the table (lines 18-20).
compute_debt_eligibility(t, c1, c2, c3) ==
    IF ~(HasColumn(t, c1) /\ HasColumn(t, c2) /\ HasColumn(t, c3))
    THEN [raised |-> TRUE, df |-> NoTable]
    ELSE [raised |-> FALSE,
          df |-> classify_series(t, to_num(Column(t, c1)), to_num(Column(t, c2)),
                                 to_num(Column(t, c3)))]

---------------------------------------------------------------------------
(* guess_balance_columns (lines 45-61). *)

\* the keyword list without "member"
exclude_keywords_short ==
    << <<"r","o","u","t","e">>, <<"n","a","m","e">>,
       <<"d","a","t","e">>, <<"m","o","n","t","h">>, <<"y","e","a","r">>,
       <<"i","d">>, <<"c","l","e","r","k">>, <<"z","o","n","e">> >>

exclude_keywords ==
    << <<"m","e","m","b","e","r">>, <<"r","o","u","t","e">>, <<"n","a","m","e">>,
       <<"d","a","t","e">>, <<"m","o","n","t","h">>, <<"y","e","a","r">>,
       <<"i","d">>, <<"c","l","e","r","k">>, <<"z","o","n","e">> >>

UpperCase == <<"A","B","C","D","E","F","G","H","I","J","K","L","M",
               "N","O","P","Q","R","S","T","U","V","W","X","Y","Z">>

LowerCase == <<"a","b","c","d","e","f","g","h","i","j","k","l","m",
               "n","o","p","q","r","s","t","u","v","w","x","y","z">>

\* the lowercase letter of each uppercase letter
ToLower ==
    [u \in Range(UpperCase) |-> LowerCase[CHOOSE j \in DOMAIN UpperCase : UpperCase[j] = u]]

\* str(c).lower()
lower(c) == [i \in DOMAIN c |-> IF c[i] \in DOMAIN ToLower THEN ToLower[c[i]] ELSE c[i]]

\* k in c_low
Contains(c_low, k) ==
    \E i \in 0..(Len(c_low) - Len(k)) : SubSeq(c_low, i + 1, i + Len(k)) = k

\* any(k in c_low for k in exclude_keywords)
excluded_by_name(c) ==
    LET c_low == lower(c)
    IN  \E j \in DOMAIN exclude_keywords : Contains(c_low, exclude_keywords[j])

RECURSIVE CountNotNa(_, _)
\* series.notna().sum() over the first n values
CountNotNa(s, n) ==
    IF n = 0 THEN 0
    ELSE CountNotNa(s, n - 1) + (IF pd_to_numeric(s[n]).nan THEN 0 ELSE 1)

\* the threshold test with >= in place of >
ratio_at_least(s) == Len(s) > 0 /\ 10 * CountNotNa(s, Len(s)) >= 3 * Len(s)

\* non_null_ratio > 0.3 (line 58); the mean of an empty series is NaN, and
\* NaN > 0.3 is false
ratio_exceeds(s) == Len(s) > 0 /\ 10 * CountNotNa(s, Len(s)) > 3 * Len(s)

\* lines 52-59 for one column: its name is appended to the candidates or not
consider(candidates, col) ==
    IF excluded_by_name(col.name) THEN candidates
    ELSE IF ratio_exceeds(col.vals) THEN Append(candidates, col.name)
    ELSE candidates

RECURSIVE candidates_upto(_, _)
\* the loop of lines 51-59 over the first n columns
candidates_upto(t, n) ==
    IF n = 0 THEN <<>> ELSE consider(candidates_upto(t, n - 1), t[n])

\* return candidates if candidates else list(df.columns) (line 61)
candidates_or_all(candidates, t) ==
    IF candidates # <<>> THEN candidates ELSE Names(t)

guess_balance_columns(t) == candidates_or_all(candidates_upto(t, Len(t)), t)

---------------------------------------------------------------------------
(* The run of lines 109-124, with the handler of lines 140-141. *)

RECURSIVE keep_existing(_, _)
\* [c for c in cols if c in t.columns] (line 114)
keep_existing(cols, t) ==
    IF cols = <<>> THEN <<>>
    ELSE (IF HasColumn(t, Head(cols)) THEN <<Head(cols)>> ELSE <<>>)
         \o keep_existing(Tail(cols), t)

\* t[cols]: the named columns in the order of cols, a repeated name repeated
select_columns(t, cols) == [i \in DOMAIN cols |-> t[ColumnIndex(t, cols[i])]]

HasDuplicates(s) == \E i, j \in DOMAIN s : i < j /\ s[i] = s[j]

Occurrences(s, x) == Cardinality({i \in DOMAIN s : s[i] = x})

\* one step of the counting pass: the entry of label x is incremented, or
\* created with count `first`
Bump(acc, x, first) ==
    IF \E j \in DOMAIN acc : acc[j].label = x
    THEN [j \in DOMAIN acc |->
            IF acc[j].label = x THEN [label |-> x, count |-> acc[j].count + 1] ELSE acc[j]]
    ELSE Append(acc, [label |-> x, count |-> first])

RECURSIVE count_values(_, _, _)
\* the counts of the first n values, in first-seen order
count_values(s, n, first) ==
    IF n = 0 THEN <<>>
    ELSE Bump(count_values(s, n - 1, first), s[n].s, first)

RECURSIVE insert_desc(_, _)
\* e inserted after the entries whose count is not smaller
insert_desc(sorted, e) ==
    IF sorted = <<>> THEN <<e>>
    ELSE IF Head(sorted).count >= e.count
         THEN <<Head(sorted)>> \o insert_desc(Tail(sorted), e)
         ELSE <<e>> \o sorted

RECURSIVE sort_desc(_, _)
sort_desc(acc, n) ==
    IF n = 0 THEN <<>> ELSE insert_desc(sort_desc(acc, n - 1), acc[n])

sorted_counts(acc) == sort_desc(acc, Len(acc))

\* a count that starts at 0 when a label is first seen
value_counts_from_zero(s) == sorted_counts(count_values(s, Len(s), 0))

\* s.value_counts(dropna=False).reset_index(): one entry per distinct value,
\* most frequent first
value_counts(s) == sorted_counts(count_values(s, Len(s), 1))

NoRun == [out |-> NoTable, results |-> NoTable, summary |-> <<>>]

\* lines 118-124 on the results table.  render_ok: whether st.dataframe
\* accepts a table with repeated column names (a property of the installed
\* Streamlit/pyarrow, which the source does not pin); if not, line 119 raises.
\* With "DebtEligibility" twice among the columns, results["DebtEligibility"]
\* is a table and line 122 raises.
render_results(o, result_cols, res, render_ok) ==
    IF HasDuplicates(result_cols) /\ ~render_ok
    THEN [out |-> o, results |-> res, summary |-> <<>>, shown |-> {"error"}]
    ELSE IF Occurrences(result_cols, DebtEligibility) > 1
    THEN [out |-> o, results |-> res, summary |-> <<>>, shown |-> {"results", "error"}]
    ELSE [out |-> o, results |-> res,
          summary |-> value_counts(Column(res, DebtEligibility)),
          shown |-> {"results", "summary", "download"}]

\* lines 114-116
take_result_cols(o, result_cols, render_ok) ==
    render_results(o, result_cols, select_columns(o, result_cols), render_ok)

\* lines 112-124 after a call that returned, line 141 after one that raised
after_compute(r, member, route, c1, c2, c3, render_ok) ==
    IF r.raised
    THEN NoRun @@ [shown |-> {"error"}]
    ELSE take_result_cols(r.df,
             keep_existing(<<member, route, c1, c2, c3, DebtEligibility, Reason>>, r.df),
             render_ok)

\* The body of `if st.button("Run eligibility")` (lines 109-138) under the
\* handler of lines 140-141.
run_eligibility(t, member, route, c1, c2, c3, render_ok) ==
    after_compute(compute_debt_eligibility(t, c1, c2, c3),
                  member, route, c1, c2, c3, render_ok)

---------------------------------------------------------------------------
(* The form (lines 78-108). *)

memberno_spellings ==
    { <<"m","e","m","b","e","r","n","o">>,
      <<"m","e","m","b","e","r","_","n","o">>,
      <<"m","e","m","b","e","r","n","u","m","b","e","r">> }

IsNotSpace(ch) == ch # " "

\* str(c).lower().replace(" ", "")
lower_nospace(c) == SelectSeq(lower(c), IsNotSpace)

RECURSIVE first_true(_, _)
\* 0-based index of the first TRUE of flags at or after position i, -1 if none
first_true(flags, i) ==
    IF i > Len(flags) THEN -1
    ELSE IF flags[i] THEN i - 1
    ELSE first_true(flags, i + 1)

is_member_name(c) == lower_nospace(c) \in memberno_spellings

is_route_name(c) == Contains(lower(c), <<"r","o","u","t","e">>)

or_else(g, d) == IF g >= 0 THEN g ELSE d

\* index argument of the Member No selectbox (lines 82, 85)
member_index(all_cols) ==
    or_else(first_true([i \in DOMAIN all_cols |-> is_member_name(all_cols[i])], 1), 0)

\* index argument of the Route selectbox (lines 83, 86)
route_index(all_cols) ==
    or_else(first_true([i \in DOMAIN all_cols |-> is_route_name(all_cols[i])], 1),
            IF Len(all_cols) > 1 THEN 1 ELSE 0)

Min(a, b) == IF a < b THEN a ELSE b

\* cols.index(val) if val in cols else 0 (lines 93-94), 0-based
idx_or_zero(cols, val) ==
    IF \E i \in DOMAIN cols : cols[i] = val
    THEN (CHOOSE i \in DOMAIN cols : cols[i] = val /\ \A j \in 1..(i - 1) : cols[j] # val) - 1
    ELSE 0

\* default_m1, default_m2, default_m3 (lines 96-98), n = 0, 1, 2
default_m(cands, all_cols, n) ==
    IF Len(cands) > n THEN cands[n + 1]
    ELSE all_cols[Min(n, Len(all_cols) - 1) + 1]

\* the options of the three balance selectors, were they every column
balance_options_all(t) == Names(t)

\* the options of the three balance selectors (lines 89, 100-102)
balance_options(t) == guess_balance_columns(t)

\* the value a fresh balance selectbox takes: options[index]
initial_value(cands, all_cols, n) ==
    cands[idx_or_zero(cands, default_m(cands, all_cols, n)) + 1]

\* a validation that only rejects three equal selections
all_same(c1, c2, c3) == Cardinality({c1, c2, c3}) < 2

\* len({col_m1, col_m2, col_m3}) < 3 (line 105)
not_distinct(c1, c2, c3) == Cardinality({c1, c2, c3}) < 3

add_shown(r, x) == [r EXCEPT !.shown = @ \cup {x}]

\* What one run of the script renders below the selectors, given the widget
\* values and whether the Run button was the widget clicked.
script_run(t, member, route, c1, c2, c3, clicked, render_ok) ==
    IF not_distinct(c1, c2, c3)
    THEN NoRun @@ [shown |-> {"warning"}]
    ELSE IF clicked
         THEN add_shown(run_eligibility(t, member, route, c1, c2, c3, render_ok),
                        "run_button")
         ELSE NoRun @@ [shown |-> {"run_button"}]

---------------------------------------------------------------------------
(* Input tables. *)

\* the sequences of n distinct elements of S
DistinctSeqs(S, n) == {q \in [1..n -> S] : \A i, j \in 1..n : i # j => q[i] # q[j]}

\* A column of n values of which the first k parse as numbers; the numbers
\* alternate with numerals kept as text, the rest alternates between texts
\* that do not parse and missing values.
RatioColumn(n, k) ==
    [i \in 1..n |->
        IF i <= k
        THEN (IF i % 2 = 1 THEN Num(i % (MaxVal + 1)) ELSE Str("1"))
        ELSE (IF i % 2 = 1 THEN Str("n/a") ELSE Null)]

GuessNames == {Member_No, Nov_Balance, Paid, Dec}

\* A table for guess_balance_columns: the columns named by h, n rows, ks[i]
\* parseable values in column i.
GuessTable(h, n, ks) == [i \in DOMAIN h |-> [name |-> h[i], vals |-> RatioColumn(n, ks[i])]]

Idle ==
    /\ col_member = NoCol /\ col_route = NoCol
    /\ col_m1 = NoCol /\ col_m2 = NoCol /\ col_m3 = NoCol
    /\ balance_candidates = <<>>
    /\ out = NoTable /\ results = NoTable /\ summary = <<>>
    /\ shown = {}

---------------------------------------------------------------------------
(* guess_balance_columns applied to a table. *)

InitGuess ==
    /\ uploaded = TRUE
    /\ \E c \in 1..MaxGuessCols, n \in 0..MaxGuessRows :
         \E h \in DistinctSeqs(GuessNames, c), ks \in [1..c -> 0..n] :
            df = GuessTable(h, n, ks)
    /\ Idle
    /\ pc = "input"

Guess ==
    /\ pc = "input"
    /\ balance_candidates' = guess_balance_columns(df)
    /\ pc' = "guessed"
    /\ UNCHANGED <<uploaded, df, col_member, col_route, col_m1, col_m2, col_m3,
                   out, results, summary, shown>>

NextGuess == Guess

SpecGuess == InitGuess /\ [][NextGuess]_vars

---------------------------------------------------------------------------
(* compute_debt_eligibility and the run of lines 109-124 applied to a table  *)
(* and five column references, which may name columns the table lacks.      *)
(* The inputs: every table of three balance columns with up to MaxRows rows *)
(* of Cells; tables of fixed content with a member or route column, with or *)
(* without a column that already bears the name of a result column, under   *)
(* every choice of balance references among Nov, Dec, Jan and Feb (which no *)
(* table has); and the table of the end-to-end scenario.                    *)

Cells == {Num(n) : n \in 0..MaxVal} \cup {Str("1"), Str("n/a"), Null}

\* the table of three balance columns whose rows are the triples of rows
RuleTable(rows) ==
    << [name |-> Nov, vals |-> [i \in DOMAIN rows |-> rows[i][1]]],
       [name |-> Dec, vals |-> [i \in DOMAIN rows |-> rows[i][2]]],
       [name |-> Jan, vals |-> [i \in DOMAIN rows |-> rows[i][3]]] >>

\* two-row columns of fixed content
FrameColumn(c) ==
    [name |-> c,
     vals |-> CASE c = Member_No -> <<Num(1), Num(2)>>
                [] c = Route -> <<Str("A"), Str("B")>>
                [] c = Nov -> <<Num(1), Null>>
                [] c = Dec -> <<Num(2), Str("n/a")>>
                [] c = Jan -> <<Num(2), Num(0)>>
                [] c = Reason -> <<Str("late"), Null>>
                [] c = DebtEligibility -> <<Str("Eligible"), Str("old")>>]

FrameHeaders ==
    { <<Member_No, Route, Nov, Dec, Jan>>,
      <<Member_No, Nov, Dec, Jan, Reason>>,
      <<DebtEligibility, Route, Nov, Dec, Jan>>,
      <<Member_No, Route, Nov, Dec>> }

FrameTable(h) == [i \in DOMAIN h |-> FrameColumn(h[i])]

\* the four rows of the end-to-end scenario
ScenarioTable ==
    << [name |-> Member_No, vals |-> <<Num(1), Num(2), Num(3), Num(4)>>],
       [name |-> Route, vals |-> <<Str("A"), Str("B"), Str("C"), Str("D")>>],
       [name |-> m1_name, vals |-> <<Num(100), Num(0), Num(10), Num(30)>>],
       [name |-> m2_name, vals |-> <<Num(50), Num(0), Num(20), Num(20)>>],
       [name |-> m3_name, vals |-> <<Num(50), Num(0), Num(30), Num(10)>>] >>

CoreInput(t, member, route, c1, c2, c3) ==
    /\ uploaded = TRUE
    /\ df = t
    /\ col_member = member /\ col_route = route
    /\ col_m1 = c1 /\ col_m2 = c2 /\ col_m3 = c3
    /\ balance_candidates = <<>>
    /\ out = NoTable /\ results = NoTable /\ summary = <<>>
    /\ shown = {}
    /\ pc = "input"

InitCore ==
    \/ \E n \in 0..MaxRows : \E rows \in [1..n -> Cells \X Cells \X Cells] :
          CoreInput(RuleTable(rows), Nov, Dec, Nov, Dec, Jan)
    \/ \E h \in FrameHeaders :
          \E member \in {Member_No, Nov} \cup ({DebtEligibility} \cap Range(h)),
             route \in {Route} \cup ({Reason} \cap Range(h)) :
             \E c1, c2, c3 \in {Nov, Dec, Jan, Feb} :
                CoreInput(FrameTable(h), member, route, c1, c2, c3)
    \/ CoreInput(ScenarioTable, Member_No, Route, m1_name, m2_name, m3_name)

\* out = compute_debt_eligibility(df, col_m1, col_m2, col_m3); the function
\* works on df.copy() (line 12), so the caller's df is not written
Returned(r) ==
    /\ out' = r.df
    /\ pc' = IF r.raised THEN "raised" ELSE "classified"

Classify ==
    /\ pc = "input"
    /\ Returned(compute_debt_eligibility(df, col_m1, col_m2, col_m3))
    /\ UNCHANGED <<uploaded, df, col_member, col_route, col_m1, col_m2, col_m3,
                   balance_candidates, results, summary, shown>>

\* lines 109-124 under the handler of lines 140-141
Rendered(r) ==
    /\ out' = r.out
    /\ results' = r.results
    /\ summary' = r.summary
    /\ shown' = r.shown

Request ==
    /\ pc = "input"
    /\ \E render_ok \in BOOLEAN :
          Rendered(run_eligibility(df, col_member, col_route, col_m1, col_m2, col_m3,
                                   render_ok))
    /\ pc' = "requested"
    /\ UNCHANGED <<uploaded, df, col_member, col_route, col_m1, col_m2, col_m3,
                   balance_candidates>>

NextCore == Classify \/ Request

SpecCore == InitCore /\ [][NextCore]_vars

---------------------------------------------------------------------------
(* The form: one action per user interaction, each a whole run of the       *)
(* script (Streamlit reruns it from the top with the widgets' values).      *)

\* three-row columns of fixed content for the uploaded tables
UIColumn(c) ==
    [name |-> c,
     vals |-> CASE c = Member_No -> <<Num(1), Num(2), Num(3)>>
                [] c = Route -> <<Str("A"), Str("B"), Null>>
                [] c = Paid -> <<Num(1), Str("n/a"), Null>>
                [] c = Nov -> <<Num(0), Num(1), Num(2)>>
                [] c = Dec -> <<Null, Num(2), Num(2)>>
                [] c = Jan -> <<Str("n/a"), Num(3), Str("2")>>]

UINames == {Member_No, Route, Paid, Nov, Dec, Jan}

UITable(h) == [i \in DOMAIN h |-> UIColumn(h[i])]

Init ==
    /\ uploaded = FALSE
    /\ df = NoTable
    /\ Idle
    /\ pc = "idle"

\* the part of a script run below the selectors
Rerun(t, member, route, c1, c2, c3, clicked, render_ok) ==
    /\ Rendered(script_run(t, member, route, c1, c2, c3, clicked, render_ok))
    /\ pc' = IF clicked THEN "ran" ELSE "form"

Selected(t, member, route, c1, c2, c3) ==
    /\ col_member' = member /\ col_route' = route
    /\ col_m1' = c1 /\ col_m2' = c2 /\ col_m3' = c3
    /\ Rerun(t, member, route, c1, c2, c3, FALSE, TRUE)

\* lines 78-102 in the first run on a table: the selectors are new widgets
\* and take the values at their index arguments
FirstRun(t, all_cols, cands) ==
    /\ df' = t
    /\ balance_candidates' = cands
    /\ Selected(t, all_cols[member_index(all_cols) + 1], all_cols[route_index(all_cols) + 1],
                initial_value(cands, all_cols, 0), initial_value(cands, all_cols, 1),
                initial_value(cands, all_cols, 2))

Uploaded(t) == FirstRun(t, Names(t), balance_options(t))

\* A file is put in the uploader.
Upload ==
    /\ ~uploaded
    /\ \E c \in 1..MaxUICols : \E h \in DistinctSeqs(UINames, c) : Uploaded(UITable(h))
    /\ uploaded' = TRUE

\* The file is removed: `if uploaded` is false and nothing below is rendered.
RemoveFile ==
    /\ uploaded
    /\ uploaded' = FALSE
    /\ df' = NoTable
    /\ col_member' = NoCol /\ col_route' = NoCol
    /\ col_m1' = NoCol /\ col_m2' = NoCol /\ col_m3' = NoCol
    /\ balance_candidates' = <<>>
    /\ out' = NoTable /\ results' = NoTable /\ summary' = <<>>
    /\ shown' = {}
    /\ pc' = "idle"

SelectMember ==
    /\ uploaded
    /\ \E c \in Range(Names(df)) :
          /\ col_member' = c
          /\ Rerun(df, c, col_route, col_m1, col_m2, col_m3, FALSE, TRUE)
    /\ UNCHANGED <<uploaded, df, col_route, col_m1, col_m2, col_m3, balance_candidates>>

SelectRoute ==
    /\ uploaded
    /\ \E c \in Range(Names(df)) :
          /\ col_route' = c
          /\ Rerun(df, col_member, c, col_m1, col_m2, col_m3, FALSE, TRUE)
    /\ UNCHANGED <<uploaded, df, col_member, col_m1, col_m2, col_m3, balance_candidates>>

SelectM1 ==
    /\ uploaded
    /\ \E c \in Range(balance_options(df)) :
          /\ col_m1' = c
          /\ Rerun(df, col_member, col_route, c, col_m2, col_m3, FALSE, TRUE)
    /\ UNCHANGED <<uploaded, df, col_member, col_route, col_m2, col_m3, balance_candidates>>

SelectM2 ==
    /\ uploaded
    /\ \E c \in Range(balance_options(df)) :
          /\ col_m2' = c
          /\ Rerun(df, col_member, col_route, col_m1, c, col_m3, FALSE, TRUE)
    /\ UNCHANGED <<uploaded, df, col_member, col_route, col_m1, col_m3, balance_candidates>>

SelectM3 ==
    /\ uploaded
    /\ \E c \in Range(balance_options(df)) :
          /\ col_m3' = c
          /\ Rerun(df, col_member, col_route, col_m1, col_m2, c, FALSE, TRUE)
    /\ UNCHANGED <<uploaded, df, col_member, col_route, col_m1, col_m2, balance_candidates>>

\* The Run button exists only in a run that rendered it (line 108).
ClickRun ==
    /\ uploaded
    /\ "run_button" \in shown
    /\ \E render_ok \in BOOLEAN :
          Rerun(df, col_member, col_route, col_m1, col_m2, col_m3, TRUE, render_ok)
    /\ UNCHANGED <<uploaded, df, col_member, col_route, col_m1, col_m2, col_m3,
                   balance_candidates>>

\* Clicking the download button reruns the script with the Run button unclicked.
ClickDownload ==
    /\ uploaded
    /\ "download" \in shown
    /\ Rerun(df, col_member, col_route, col_m1, col_m2, col_m3, FALSE, TRUE)
    /\ UNCHANGED <<uploaded, df, col_member, col_route, col_m1, col_m2, col_m3,
                   balance_candidates>>

Next ==
    \/ Upload
    \/ RemoveFile
    \/ SelectMember
    \/ SelectRoute
    \/ SelectM1
    \/ SelectM2
    \/ SelectM3
    \/ ClickRun
    \/ ClickDownload

Spec == Init /\ [][Next]_vars

---------------------------------------------------------------------------
(* Properties. *)

LabelsOf(t) == [i \in DOMAIN Column(t, DebtEligibility) |-> Column(t, DebtEligibility)[i].s]

ReasonsOf(t) == [i \in DOMAIN Column(t, Reason) |-> Column(t, Reason)[i].s]

\* the decision rule of the specification, as an ordered conditional
RuleOutcome(v1, v2, v3) ==
    IF v1 = 0 /\ v2 = 0 /\ v3 = 0
    THEN <<"Eligible", "Zero balance across selected months">>
    ELSE IF v1 < v2 /\ v2 < v3
    THEN <<"Ineligible", "Strictly increasing debt across selected months">>
    ELSE IF v1 > v2 /\ v2 > v3
    THEN <<"Eligible", "Strictly decreasing debt across selected months">>
    ELSE IF v1 = v2 /\ v2 = v3
    THEN <<"Dormant", "Constant balance across selected months (Dormant)">>
    ELSE <<"Ineligible", "Mixed behaviour">>

\* a value that is missing, or a text that is not a numeral
IsBlank(c) == c.k = "null" \/ (c.k = "str" /\ \A n \in 0..MaxVal : ToString(n) # c.s)

\* the value of a cell that is not blank
ValueOf(c) == IF c.k = "num" THEN c.v ELSE CHOOSE n \in 0..MaxVal : ToString(n) = c.s

\* the number a cell stands for under the zero-filling coercion
Coerced(c) == IF IsBlank(c) THEN 0 ELSE ValueOf(c)

\* the table with every blank cell replaced by the number 0
ZeroFilled(t) ==
    [i \in DOMAIN t |->
        [name |-> t[i].name,
         vals |-> [j \in DOMAIN t[i].vals |->
                      IF IsBlank(t[i].vals[j]) THEN Num(0) ELSE t[i].vals[j]]]]

BalanceRefsExist == HasColumn(df, col_m1) /\ HasColumn(df, col_m2) /\ HasColumn(df, col_m3)

\* C1: every row of a classified table carries the label and the reason of
\* the first rule, in the order zero / increasing / decreasing / constant /
\* otherwise, that its three coerced values match; an all-zero row is
\* Eligible, never Dormant; no label is outside Eligible, Ineligible, Dormant.
C1_FirstMatchingRule ==
    pc = "classified" =>
        \A i \in 1..NRows(df) :
            LET v1 == Coerced(Column(df, col_m1)[i])
                v2 == Coerced(Column(df, col_m2)[i])
                v3 == Coerced(Column(df, col_m3)[i])
            IN  /\ <<LabelsOf(out)[i], ReasonsOf(out)[i]>> = RuleOutcome(v1, v2, v3)
                /\ LabelsOf(out)[i] \in {"Eligible", "Ineligible", "Dormant"}
                /\ (v1 = 0 /\ v2 = 0 /\ v3 = 0) => LabelsOf(out)[i] = "Eligible"

\* an all-zero row, which also satisfies the constant rule, was classified
C1_Witness ==
    /\ pc = "classified"
    /\ \E i \in 1..NRows(df) :
          /\ Column(df, col_m1)[i] = Num(0)
          /\ Column(df, col_m2)[i] = Num(0)
          /\ Column(df, col_m3)[i] = Num(0)
          /\ LabelsOf(out)[i] = "Eligible"

ScenarioClassified ==
    /\ pc = "classified"
    /\ df = ScenarioTable
    /\ col_m1 = m1_name /\ col_m2 = m2_name /\ col_m3 = m3_name

\* C2 as stated: the scenario's rows (100,50,50), (0,0,0), (10,20,30),
\* (30,20,10) are labelled Dormant, Eligible, Ineligible, Eligible.
C2_ScenarioAsStated ==
    ScenarioClassified => LabelsOf(out) = <<"Dormant", "Eligible", "Ineligible", "Eligible">>

\* C2 amended: the scenario's rows are labelled Ineligible, Eligible,
\* Ineligible, Eligible; (100,50,50) is neither strictly decreasing nor
\* constant and falls to the default rule with reason "Mixed behaviour".
C2_ScenarioLabels ==
    ScenarioClassified =>
        /\ LabelsOf(out) = <<"Ineligible", "Eligible", "Ineligible", "Eligible">>
        /\ ReasonsOf(out)[1] = "Mixed behaviour"

C2_Witness == ScenarioClassified /\ NRows(out) = 4

\* C3: a classified table has the labels and reasons of the table in which
\* every missing or unparsable value is the number 0; a row whose three
\* values are all missing or unparsable is Eligible with the zero-balance
\* reason; and no call on existing columns raises.
C3_ZeroFillingCoercion ==
    /\ pc = "classified" =>
          LET z == compute_debt_eligibility(ZeroFilled(df), col_m1, col_m2, col_m3).df
          IN  /\ LabelsOf(out) = LabelsOf(z)
              /\ ReasonsOf(out) = ReasonsOf(z)
              /\ \A i \in 1..NRows(df) :
                    (/\ IsBlank(Column(df, col_m1)[i])
                     /\ IsBlank(Column(df, col_m2)[i])
                     /\ IsBlank(Column(df, col_m3)[i]))
                    => /\ LabelsOf(out)[i] = "Eligible"
                       /\ ReasonsOf(out)[i] = "Zero balance across selected months"
    /\ pc = "raised" => ~BalanceRefsExist

\* a row with a missing value, an unparsable text and a zero was classified
C3_Witness ==
    /\ pc = "classified"
    /\ \E i \in 1..NRows(df) :
          /\ Column(df, col_m1)[i] = Null
          /\ Column(df, col_m2)[i] = Str("n/a")
          /\ Column(df, col_m3)[i] = Num(0)
          /\ LabelsOf(out)[i] = "Eligible"

\* C4: the classified table is the input table with the two columns
\* DebtEligibility and Reason appended: the input's columns first, unchanged
\* and in order, then exactly these two, over the same rows.
C4_TwoColumnsAppended ==
    pc = "classified" =>
        /\ Len(out) = Len(df) + 2
        /\ \A i \in 1..Len(df) : i \in DOMAIN out /\ out[i] = df[i]
        /\ out[Len(out) - 1].name = DebtEligibility
        /\ out[Len(out)].name = Reason
        /\ NRows(out) = NRows(df)

RefMissing(c) == ~HasColumn(df, c)

KeywordTexts ==
    { <<"m","e","m","b","e","r">>, <<"r","o","u","t","e">>, <<"n","a","m","e">>,
      <<"d","a","t","e">>, <<"m","o","n","t","h">>, <<"y","e","a","r">>,
      <<"i","d">>, <<"c","l","e","r","k">>, <<"z","o","n","e">> }

\* the name low holds keyword k at some position
HoldsKeyword(low) ==
    \E k \in KeywordTexts : \E d \in 0..(Len(low) - Len(k)) :
        \A j \in 1..Len(k) : low[d + j] = k[j]

\* the lowercased name c holds a keyword
NameHasKeyword(c) == HoldsKeyword(lower(c))

\* more than 30% of the column's values are numbers or numerals
MostlyNumeric(col) ==
    LET n == Len(col.vals)
        parseable == {j \in 1..n : ~IsBlank(col.vals[j])}
    IN  n > 0 /\ 10 * Cardinality(parseable) > 3 * n

Qualifies(col) == ~NameHasKeyword(col.name) /\ MostlyNumeric(col)

QualifyingNames(t) == {t[i].name : i \in {j \in DOMAIN t : Qualifies(t[j])}}

\* the names of s that are in the set q, in the order of s
Restricted(s, q) == SelectSeq(s, LAMBDA c : c \in q)

\* the columns the heuristic is to return for table t with qualifying names q
Expected(t, q) == IF q = {} THEN Names(t) ELSE Restricted(Names(t), q)

\* C5: guess_balance_columns returns, in the table's column order, exactly
\* the columns whose lowercased name holds no keyword and of whose values
\* strictly more than 30% parse as numbers (a column of no rows has no such
\* fraction and does not qualify); if none qualifies it returns all columns;
\* the result is never empty.
C5_GuessedColumns ==
    pc = "guessed" =>
        /\ balance_candidates = Expected(df, QualifyingNames(df))
        /\ balance_candidates # <<>>

\* a column of a neutral name with exactly 30% parseable values was left
\* out, beside a column that qualified
C5_Witness ==
    /\ pc = "guessed"
    /\ \E i \in DOMAIN df :
          /\ ~NameHasKeyword(df[i].name)
          /\ Len(df[i].vals) = 10
          /\ Cardinality({j \in 1..10 : ~IsBlank(df[i].vals[j])}) = 3
          /\ df[i].name \notin Range(balance_candidates)
    /\ balance_candidates # <<>>
    /\ balance_candidates # Names(df)

\* C6 as stated: a column named Member_No is never among the returned columns.
C6_MemberNoNeverReturned ==
    pc = "guessed" => Member_No \notin Range(balance_candidates)

\* C6 amended: a column named Member_No is among the returned columns only by
\* the fallback, when no column of the table qualifies and all its columns
\* are returned; whenever some column qualifies, Member_No is not returned,
\* whatever its values.
C6_MemberNoOnlyByFallback ==
    (pc = "guessed" /\ Member_No \in Range(balance_candidates)) =>
        /\ QualifyingNames(df) = {}
        /\ balance_candidates = Names(df)

\* a fully numeric Member_No column was left out, beside a column that
\* qualified
C6_Witness ==
    /\ pc = "guessed"
    /\ \E i \in DOMAIN df :
          /\ df[i].name = Member_No
          /\ Len(df[i].vals) > 0
          /\ \A j \in DOMAIN df[i].vals : ~IsBlank(df[i].vals[j])
    /\ balance_candidates # <<>>
    /\ Member_No \notin Range(balance_candidates)

PairwiseDistinct == col_m1 # col_m2 /\ col_m1 # col_m3 /\ col_m2 # col_m3

NothingProduced == out = NoTable /\ results = NoTable /\ summary = <<>>

\* C7: in the form, while two of the three balance selections coincide the
\* warning is shown, the Run button is not offered and no classified table,
\* results or summary exist; a run of the classifier only happens with three
\* pairwise distinct selections.
C7_NoRunUnlessDistinct ==
    uploaded =>
        /\ ~PairwiseDistinct =>
              /\ "warning" \in shown
              /\ "run_button" \notin shown
              /\ shown \cap {"results", "summary", "download"} = {}
              /\ NothingProduced
        /\ (pc = "ran" \/ out # NoTable) => PairwiseDistinct

\* two selections coincide and the third differs, on a table with three
\* columns to choose from
C7_Witness ==
    /\ uploaded
    /\ Len(balance_candidates) >= 3
    /\ col_m1 = col_m2 /\ col_m2 # col_m3
    /\ "warning" \in shown

RECURSIVE SumCounts(_, _)
SumCounts(sm, n) == IF n = 0 THEN 0 ELSE SumCounts(sm, n - 1) + sm[n].count

\* C8: a summary has exactly one entry per label that occurs in the results
\* table, with the number of rows that carry it, no entry for any other
\* label, and counts that add up to the number of rows of the results table.
C8_SummaryCounts ==
    "summary" \in shown =>
        LET labels == LabelsOf(results)
            present == Range(labels)
        IN  /\ \A l \in present :
                  \E j \in DOMAIN summary :
                      /\ summary[j].label = l
                      /\ summary[j].count = Cardinality({i \in DOMAIN labels : labels[i] = l})
            /\ \A j \in DOMAIN summary : summary[j].label \in present
            /\ \A j, k \in DOMAIN summary : summary[j].label = summary[k].label => j = k
            /\ SumCounts(summary, Len(summary)) = NRows(results)

\* a summary of a run that produced two labels, one of them twice
C8_Witness ==
    /\ pc = "ran"
    /\ "summary" \in shown
    /\ Len(summary) = 2
    /\ summary[1].count = 2

\* C10: the three balance selections are always columns returned by
\* guess_balance_columns; on a table for which it returns fewer than three
\* columns the warning is shown in every state and the classifier never
\* runs, also when the table has three or more columns.
C10_OnlyGuessedColumns ==
    uploaded =>
        /\ {col_m1, col_m2, col_m3} \subseteq Range(guess_balance_columns(df))
        /\ Len(guess_balance_columns(df)) < 3 =>
              /\ "warning" \in shown
              /\ "run_button" \notin shown
              /\ pc # "ran"
              /\ NothingProduced

\* a table of three columns of which only two are guessed
C10_Witness ==
    /\ uploaded
    /\ Len(df) >= 3
    /\ Len(guess_balance_columns(df)) = 2
    /\ col_m1 # col_m2
    /\ "warning" \in shown

====
